---------------------------- MODULE Spec2Model ----------------------------
(***************************************************************************)
(* Face-capture quality gate of the smart_face module.                     *)
(*                                                                         *)
(*   calculators/smart_face/smart_capture_calculator.cc                    *)
(*       class SmartCaptureCalculator   (Open, Process, CropAndSend)       *)
(*   graphs/smart_face/smart_face_main_wasm.cc                             *)
(*       class SmartFaceProcessor       (initialize, set*, detectFace,     *)
(*                                       captureFrame, resetCaptures)      *)
(*                                                                         *)
(* The two classes live in two different programs, so a behaviour of this  *)
(* module is the life of ONE object: the variable site, fixed by Init,     *)
(* says which.                                                             *)
(*                                                                         *)
(* Numbers.  The code computes in float; the model computes in fixed       *)
(* point.  A normalized coordinate c is the integer c * Scale, an angle of *)
(* d degrees is the integer d * 1000 (milli-degrees), padding p is the     *)
(* integer p * Scale.  Pixel sizes and counters are plain integers.        *)
(***************************************************************************)
EXTENDS Integers, Sequences, FiniteSets, TLC

\* Fixed-point resolution of a float coordinate: 1.0 is Scale.
Scale == 10000

\* Number of face-mesh landmarks the WASM module requires and generates.
NumLandmarks == 468

\* Largest max_captures a caller configures in the model.
MaxCaptures == 2

---------------------------------------------------------------------------
(* Arithmetic of the C++ built-ins the code uses.                          *)

\* std::abs
Abs(a) == IF a < 0 THEN -a ELSE a

\* std::min / std::max
Min(a, b) == IF a < b THEN a ELSE b

Max(a, b) == IF a > b THEN a ELSE b

\* float -> int conversion and int / int: both truncate toward zero.
TruncDiv(a, b) ==
  IF (a >= 0) = (b > 0) THEN Abs(a) \div Abs(b) ELSE -(Abs(a) \div Abs(b))

\* tan(k degrees) * Scale for k = 0..45 (entry k+1 is k degrees).
TanTab ==
  << 0, 175, 349, 524, 699, 875, 1051, 1228, 1405, 1584, 1763, 1944,
     2126, 2309, 2493, 2679, 2867, 3057, 3249, 3443, 3640, 3839, 4040, 4245,
     4452, 4663, 4877, 5095, 5317, 5543, 5774, 6009, 6249, 6494, 6745, 7002,
     7265, 7536, 7813, 8098, 8391, 8693, 9004, 9325, 9657, 10000 >>

\* atan(t / Scale) in milli-degrees for 0 <= t <= Scale: the table entry
\* below t plus a linear interpolation to the next one (exact at 0 and 45).
AtanInterpolate(t, k) ==
  k * 1000 + ((t - TanTab[k + 1]) * 1000) \div (TanTab[k + 2] - TanTab[k + 1])

AtanOfRatio(t) ==
  IF t >= Scale THEN 45000
  ELSE AtanInterpolate(t, CHOOSE j \in 0..44 : TanTab[j + 1] <= t /\ t < TanTab[j + 2])

\* AtanOfRatio of every ratio, computed once.
AtanTable == [t \in 0..Scale |-> AtanOfRatio(t)]

\* atan(p / q) in milli-degrees for 0 <= p <= q, q > 0.
AtanOctant(p, q) == AtanTable[(p * Scale) \div q]

\* atan(p / q) in milli-degrees for p, q >= 0, not both 0: 0..90000.
AtanQuadrant(p, q) ==
  IF p <= q THEN AtanOctant(p, q) ELSE 90000 - AtanOctant(q, p)

\* ToDegrees(std::atan2(y, x)) / std::atan2(y, x) * 180 / M_PI, in
\* milli-degrees.  atan2(+0, +0) is 0 and atan2(+0, x < 0) is +180.
Atan2Deg(y, x) ==
  IF x = 0 /\ y = 0 THEN 0
  ELSE LET a == AtanQuadrant(Abs(y), Abs(x))
       IN  IF x >= 0 THEN (IF y >= 0 THEN a ELSE -a)
           ELSE (IF y >= 0 THEN 180000 - a ELSE a - 180000)

---------------------------------------------------------------------------
(* Landmarks.  A landmark list is a function from 0..n-1 to landmarks, as  *)
(* NormalizedLandmarkList::landmark(i) and std::vector<Landmark>::at.      *)

Landmark(x, y, z) == [x |-> x, y |-> y, z |-> z]

Size(landmarks) == Cardinality(DOMAIN landmarks)

NoLandmarks == [i \in {} |-> Landmark(0, 0, 0)]

\* landmarks.landmark(index) of the calculator: no bounds check.  An index
\* past the end is undefined behaviour; when the read does not crash it
\* yields whatever lies there, the value garbage[index].
ReadLandmark(landmarks, index, garbage) ==
  IF index \in DOMAIN landmarks THEN landmarks[index] ELSE garbage[index]

\* The indices Process reads: nose tip, left ear, right ear.
CalcIndices == {1, 234, 454}

OutOfRange(landmarks) == \E i \in CalcIndices : i \notin DOMAIN landmarks

---------------------------------------------------------------------------
(* SmartCaptureCalculator: pose, gate, crop.                               *)

\* Yaw of Process: atan2 of the ears' depth difference over their x
\* difference, in degrees.
CalcYaw(left_ear, right_ear) ==
  Atan2Deg(left_ear.z - right_ear.z, left_ear.x - right_ear.x)

\* Pitch of Process: atan2(nose.y - ear_mid_y, nose.z) with ear_mid_y the
\* mean of the ears' y.  Both arguments are doubled here so that the mean
\* stays an integer; atan2 does not change under a common positive factor.
CalcPitch(nose, left_ear, right_ear) ==
  Atan2Deg(2 * nose.y - (left_ear.y + right_ear.y), 2 * nose.z)

\* Faulty variant: the pitch threshold without the factor 2.0.
CalcPitchLimitDirect(max_pitch) == max_pitch

\* The threshold Process compares |pitch| with: max_pitch_ * 2.0.
CalcPitchLimit(max_pitch) == 2 * max_pitch

\* Faulty variant: the two checks in the other order.
CalcGatePitchFirst(yaw, pitch, max_yaw, max_pitch) ==
  IF Abs(pitch) > 2 * max_pitch THEN "RejectPitch"
  ELSE IF Abs(yaw) > max_yaw THEN "RejectYaw"
  ELSE "Accept"

\* The checks of Process after the pose is computed, in the code's order.
CalcGate(yaw, pitch, max_yaw, max_pitch) ==
  IF Abs(yaw) > max_yaw THEN "RejectYaw"
  ELSE IF Abs(pitch) > CalcPitchLimit(max_pitch) THEN "RejectPitch"
  ELSE "Accept"

\* The status string Process sends for each way out of the gate.
CalcStatus(outcome) ==
  CASE outcome = "RejectNoFace" -> "No face detected"
    [] outcome = "RejectYaw"    -> "Face turned too much (Yaw)"
    [] outcome = "RejectPitch"  -> "Face tilted up/down too much (Pitch)"
    [] outcome = "Accept"       -> "Captured!"
    [] OTHER                    -> ""

\* SendStatus: a packet on STATUS only when the graph connects that output.
SendStatus(connected, message) == IF connected THEN message ELSE ""

\* Faulty variant: the limit test off by one.
LimitReachedStrict(count, max_captures) == count > max_captures

\* Faulty variant: the limit test as an equality.
LimitReachedExactly(count, max_captures) == count = max_captures

\* The first test of Process and of captureFrame.
LimitReached(count, max_captures) == count >= max_captures

\* Faulty variant: the count incremented for every frame that is looked at.
NextCountAlways(count, accepted) == count + 1

\* current_count_++ / capture_count_++ on the accepting path only.
NextCount(count, accepted) == IF accepted THEN count + 1 ELSE count

\* min/max of x and y over all landmarks, from the initial 1.0 / 0.0.
BoundingBox(landmarks) ==
  LET xs == {landmarks[i].x : i \in DOMAIN landmarks}
      ys == {landmarks[i].y : i \in DOMAIN landmarks}
      Least(S, init) == CHOOSE m \in S \cup {init} : \A v \in S \cup {init} : m <= v
      Most(S, init)  == CHOOSE m \in S \cup {init} : \A v \in S \cup {init} : m >= v
  IN  [min_x |-> Least(xs, Scale), max_x |-> Most(xs, 0),
       min_y |-> Least(ys, Scale), max_y |-> Most(ys, 0)]

\* Faulty variant: the float -> int conversions rounding to nearest.
PaddedRectRounded(bb, img_w, img_h, padding) ==
  LET Round(a) == (2 * a + Scale) \div (2 * Scale)
      w     == Round((bb.max_x - bb.min_x) * img_w)
      h     == Round((bb.max_y - bb.min_y) * img_h)
      cx    == Round(bb.min_x * img_w + TruncDiv(w, 2) * Scale)
      cy    == Round(bb.min_y * img_h + TruncDiv(h, 2) * Scale)
      pad_w == Round(w * (Scale + padding))
      pad_h == Round(h * (Scale + padding))
  IN  [x |-> cx - TruncDiv(pad_w, 2), y |-> cy - TruncDiv(pad_h, 2),
       pad_w |-> pad_w, pad_h |-> pad_h]

\* CropAndSend up to the clamp: the padded box around the landmarks.
PaddedRect(bb, img_w, img_h, padding) ==
  LET w     == TruncDiv((bb.max_x - bb.min_x) * img_w, Scale)
      h     == TruncDiv((bb.max_y - bb.min_y) * img_h, Scale)
      cx    == TruncDiv(bb.min_x * img_w + TruncDiv(w, 2) * Scale, Scale)
      cy    == TruncDiv(bb.min_y * img_h + TruncDiv(h, 2) * Scale, Scale)
      pad_w == TruncDiv(w * (Scale + padding), Scale)
      pad_h == TruncDiv(h * (Scale + padding), Scale)
  IN  [x |-> cx - TruncDiv(pad_w, 2), y |-> cy - TruncDiv(pad_h, 2),
       pad_w |-> pad_w, pad_h |-> pad_h]

\* Faulty variant: the clamp of the top-left corner only.
ClampRectOriginOnly(r, img_w, img_h) ==
  [x |-> Max(0, r.x), y |-> Max(0, r.y), pad_w |-> r.pad_w, pad_h |-> r.pad_h]

\* The clamp of CropAndSend: top-left to >= 0, extents to the image.
ClampRect(r, img_w, img_h) ==
  LET x == Max(0, r.x)
      y == Max(0, r.y)
  IN  [x |-> x, y |-> y,
       pad_w |-> Min(r.pad_w, img_w - x), pad_h |-> Min(r.pad_h, img_h - y)]

\* Faulty variant: the rectangle emitted whatever its size.
ShouldEmitAlways(r) == TRUE

\* The test that lets CropAndSend extract and emit the rectangle.
ShouldEmit(r) == r.pad_w > 0 /\ r.pad_h > 0

---------------------------------------------------------------------------
(* SmartFaceProcessor: the placeholder landmark generator, the ratio-based *)
(* pose estimators and the gate of detectFace.                             *)

\* sin(i * 2 * pi / 468) * Scale for i = 0..467 (entry i+1 is index i).
SinTab ==
  <<
     0, 134, 268, 403, 537, 671, 805, 938, 1072, 1205, 1339, 1471, 1604,
     1736, 1869, 2000, 2132, 2263, 2393, 2523, 2653, 2782, 2911, 3039, 3167, 3294,
     3420, 3546, 3671, 3796, 3920, 4043, 4165, 4287, 4408, 4528, 4647, 4766, 4883,
     5000, 5116, 5231, 5345, 5458, 5570, 5681, 5791, 5900, 6007, 6114, 6220, 6324,
     6428, 6530, 6631, 6731, 6830, 6927, 7023, 7118, 7212, 7304, 7395, 7485, 7573,
     7660, 7746, 7830, 7913, 7994, 8074, 8153, 8230, 8305, 8379, 8452, 8523, 8592,
     8660, 8727, 8791, 8855, 8916, 8976, 9035, 9091, 9146, 9200, 9252, 9302, 9350,
     9397, 9442, 9485, 9527, 9567, 9605, 9642, 9676, 9709, 9741, 9770, 9798, 9824,
     9848, 9871, 9891, 9910, 9927, 9942, 9956, 9968, 9977, 9986, 9992, 9996, 9999,
     10000, 9999, 9996, 9992, 9986, 9977, 9968, 9956, 9942, 9927, 9910, 9891, 9871,
     9848, 9824, 9798, 9770, 9741, 9709, 9676, 9642, 9605, 9567, 9527, 9485, 9442,
     9397, 9350, 9302, 9252, 9200, 9146, 9091, 9035, 8976, 8916, 8855, 8791, 8727,
     8660, 8592, 8523, 8452, 8379, 8305, 8230, 8153, 8074, 7994, 7913, 7830, 7746,
     7660, 7573, 7485, 7395, 7304, 7212, 7118, 7023, 6927, 6830, 6731, 6631, 6530,
     6428, 6324, 6220, 6114, 6007, 5900, 5791, 5681, 5570, 5458, 5345, 5231, 5116,
     5000, 4883, 4766, 4647, 4528, 4408, 4287, 4165, 4043, 3920, 3796, 3671, 3546,
     3420, 3294, 3167, 3039, 2911, 2782, 2653, 2523, 2393, 2263, 2132, 2000, 1869,
     1736, 1604, 1471, 1339, 1205, 1072, 938, 805, 671, 537, 403, 268, 134,
     0, -134, -268, -403, -537, -671, -805, -938, -1072, -1205, -1339, -1471, -1604,
     -1736, -1869, -2000, -2132, -2263, -2393, -2523, -2653, -2782, -2911, -3039, -3167, -3294,
     -3420, -3546, -3671, -3796, -3920, -4043, -4165, -4287, -4408, -4528, -4647, -4766, -4883,
     -5000, -5116, -5231, -5345, -5458, -5570, -5681, -5791, -5900, -6007, -6114, -6220, -6324,
     -6428, -6530, -6631, -6731, -6830, -6927, -7023, -7118, -7212, -7304, -7395, -7485, -7573,
     -7660, -7746, -7830, -7913, -7994, -8074, -8153, -8230, -8305, -8379, -8452, -8523, -8592,
     -8660, -8727, -8791, -8855, -8916, -8976, -9035, -9091, -9146, -9200, -9252, -9302, -9350,
     -9397, -9442, -9485, -9527, -9567, -9605, -9642, -9676, -9709, -9741, -9770, -9798, -9824,
     -9848, -9871, -9891, -9910, -9927, -9942, -9956, -9968, -9977, -9986, -9992, -9996, -9999,
     -10000, -9999, -9996, -9992, -9986, -9977, -9968, -9956, -9942, -9927, -9910, -9891, -9871,
     -9848, -9824, -9798, -9770, -9741, -9709, -9676, -9642, -9605, -9567, -9527, -9485, -9442,
     -9397, -9350, -9302, -9252, -9200, -9146, -9091, -9035, -8976, -8916, -8855, -8791, -8727,
     -8660, -8592, -8523, -8452, -8379, -8305, -8230, -8153, -8074, -7994, -7913, -7830, -7746,
     -7660, -7573, -7485, -7395, -7304, -7212, -7118, -7023, -6927, -6830, -6731, -6631, -6530,
     -6428, -6324, -6220, -6114, -6007, -5900, -5791, -5681, -5570, -5458, -5345, -5231, -5116,
     -5000, -4883, -4766, -4647, -4528, -4408, -4287, -4165, -4043, -3920, -3796, -3671, -3546,
     -3420, -3294, -3167, -3039, -2911, -2782, -2653, -2523, -2393, -2263, -2132, -2000, -1869,
     -1736, -1604, -1471, -1339, -1205, -1072, -938, -805, -671, -537, -403, -268, -134
  >>

\* std::sin / std::cos of angle = (i * 2 * pi) / 468, times Scale.
SinOf(i) == SinTab[(i % NumLandmarks) + 1]

CosOf(i) == SinTab[((i + NumLandmarks \div 4) % NumLandmarks) + 1]

\* center_x = center_y = 0.5, face_width = 0.3, face_height = 0.4.
FaceCenter == 5000

FaceWidth == 3000

FaceHeight == 4000

\* width >= 320 && height >= 240: the sizes from which landmarks are made.
GenMinWidth == 320

GenMinHeight == 240

\* processImageData: 468 points on two half ellipses when the image is at
\* least 320 x 240, no point otherwise.
\*   yaw_offset   = (width % 30 - 15) / 1000
\*   pitch_offset = (height % 20 - 10) / 1000
\*   radius       = face_width for i < 234, face_width * 0.8 after
\*   z            = -0.05 + (i % 10) * 0.001
ProcessImageData(width, height) ==
  IF width >= GenMinWidth /\ height >= GenMinHeight
  THEN LET yaw_offset   == ((width % 30) - 15) * (Scale \div 1000)
           pitch_offset == ((height % 20) - 10) * (Scale \div 1000)
           radius(i)    == IF i < 234 THEN FaceWidth ELSE TruncDiv(FaceWidth * 8, 10)
       IN  [i \in 0..(NumLandmarks - 1) |->
              Landmark(FaceCenter + TruncDiv(radius(i) * CosOf(i), Scale) + yaw_offset,
                       FaceCenter + TruncDiv(FaceHeight * SinOf(i), Scale) + pitch_offset,
                       (i % 10) * (Scale \div 1000) - 5 * (Scale \div 100))]
  ELSE NoLandmarks

\* 0.001f of the two ratio estimators.
Epsilon == Scale \div 1000

\* EstimateYaw: 0 below 468 landmarks, else the asymmetry of the nose's
\* horizontal distances to the eye corners 33 and 263, times 45 degrees.
EstimateYaw(landmarks) ==
  IF Size(landmarks) < NumLandmarks THEN 0
  ELSE LET left_dist  == Abs(landmarks[1].x - landmarks[33].x)
           right_dist == Abs(landmarks[263].x - landmarks[1].x)
       IN  TruncDiv((left_dist - right_dist) * 45000, left_dist + right_dist + Epsilon)

\* EstimatePitch: 0 below 468 landmarks, else the asymmetry of the vertical
\* distances forehead(10)-bridge(168) and chin(152)-bridge, times 30 degrees.
EstimatePitch(landmarks) ==
  IF Size(landmarks) < NumLandmarks THEN 0
  ELSE LET upper == Abs(landmarks[10].y - landmarks[168].y)
           lower == Abs(landmarks[152].y - landmarks[168].y)
       IN  TruncDiv((upper - lower) * 30000, upper + lower + Epsilon)

\* EstimateRoll: 0 below 468 landmarks, else the angle of the eye line.
EstimateRoll(landmarks) ==
  IF Size(landmarks) < NumLandmarks THEN 0
  ELSE Atan2Deg(landmarks[263].y - landmarks[33].y, landmarks[263].x - landmarks[33].x)

\* The threshold detectFace compares |pitch| with: max_pitch_ itself.
WasmPitchLimit(max_pitch) == max_pitch

\* yaw_ok, pitch_ok and the branch of detectFace's message they select.
WasmGate(yaw, pitch, max_yaw, max_pitch) ==
  LET yaw_ok   == Abs(yaw) <= max_yaw
      pitch_ok == Abs(pitch) <= WasmPitchLimit(max_pitch)
  IN  IF yaw_ok /\ pitch_ok THEN "Accept"
      ELSE IF ~yaw_ok THEN "RejectYaw"
      ELSE "RejectPitch"

\* std::to_string((int)angle): the whole degrees, truncated toward zero.
WholeDegrees(angle) == ToString(TruncDiv(angle, 1000))

\* FaceResult::message of detectFace for each of its ways out.
WasmMessage(outcome, yaw, pitch) ==
  CASE outcome = "NotInitialized" -> "Error: Not initialized"
    [] outcome = "ImageTooSmall"  -> "Image too small"
    [] outcome = "RejectNoFace"   -> "No face detected"
    [] outcome = "Accept"         -> "Good quality face detected!"
    [] outcome = "RejectYaw"      ->
         "Face turned too much (Yaw: " \o WholeDegrees(yaw) \o "째)"
    [] outcome = "RejectPitch"    ->
         "Face tilted too much (Pitch: " \o WholeDegrees(pitch) \o "째)"
    [] OTHER                      -> ""

---------------------------------------------------------------------------
(* Inputs.                                                                 *)

\* Values of max_captures, max_yaw_degrees, max_pitch_degrees and padding a
\* graph's options or a setter's caller supplies.
MaxCapturesValues == 0..MaxCaptures

MaxYawValues == {15000, 45000}

MaxPitchValues == {10000, 22500}

PaddingValues == {0, 2000}

\* Image sizes of the calculator's IMAGE input.
BigImage == [w |-> 1000, h |-> 1000]

SmallImage == [w |-> 333, h |-> 250]

\* Landmark boxes in normalized coordinates: inside the image, a single
\* point, the whole image, left of the image, across the lower right corner.
Box(x0, y0, x1, y1) == [x0 |-> x0, y0 |-> y0, x1 |-> x1, y1 |-> y1]

InsideBox == Box(2000, 2000, 6000, 7000)

WholeBox == Box(0, 0, 10000, 10000)

Boxes ==
  {InsideBox, Box(4000, 4000, 4000, 4000), WholeBox,
   Box(-5000, 2000, -1000, 7000), Box(8000, 8000, 12000, 12000)}

\* Head poses: the ears' depths, the nose's height over the ear line and the
\* nose's depth.
Pose(zl, zr, dy, nz) == [zl |-> zl, zr |-> zr, dy |-> dy, nz |-> nz]

FrontalPose == Pose(0, 0, 0, 1000)

Poses ==
  {FrontalPose, Pose(1000, -1000, 0, 1000), Pose(2000, -2000, 0, 1000),
   Pose(0, 0, 1000, 3000), Pose(0, 0, 1000, 1000), Pose(1000, -1000, 1000, 1000)}

\* A landmark list of n points: the box's corners at 0 and 2, the nose at 1,
\* the ears at 234 and 454 on the box's sides, every other point at its
\* centre.
FaceLandmarks(box, pose, n) ==
  LET xm == TruncDiv(box.x0 + box.x1, 2)
      ym == TruncDiv(box.y0 + box.y1, 2)
  IN  [i \in 0..(n - 1) |->
         CASE i = 0   -> Landmark(box.x0, box.y0, 0)
           [] i = 2   -> Landmark(box.x1, box.y1, 0)
           [] i = 1   -> Landmark(xm, ym + pose.dy, pose.nz)
           [] i = 234 -> Landmark(box.x1, ym, pose.zl)
           [] i = 454 -> Landmark(box.x0, ym, pose.zr)
           [] OTHER   -> Landmark(xm, ym, 0)]

\* Landmark counts below the 468 of a face mesh: none, too few for the ear
\* indices, enough for every index Process reads.
ShortCounts == {0, 200, 460}

\* One input of Process: whether the IMAGE and LANDMARKS packets are there,
\* the image's size and the vector of landmark lists.
Frame(has_image, has_landmarks, img, multi_landmarks) ==
  [has_image |-> has_image, has_landmarks |-> has_landmarks, img |-> img,
   multi_landmarks |-> multi_landmarks]

CalcFrames ==
  {Frame(FALSE, TRUE, BigImage, <<FaceLandmarks(InsideBox, FrontalPose, NumLandmarks)>>),
   Frame(TRUE, FALSE, BigImage, <<>>),
   Frame(TRUE, TRUE, BigImage, <<>>)}
  \cup {Frame(TRUE, TRUE, BigImage, <<FaceLandmarks(InsideBox, p, NumLandmarks)>>) : p \in Poses}
  \cup {Frame(TRUE, TRUE, BigImage, <<FaceLandmarks(b, FrontalPose, NumLandmarks)>>) :
          b \in Boxes}
  \cup {Frame(TRUE, TRUE, SmallImage, <<FaceLandmarks(b, FrontalPose, NumLandmarks)>>) :
          b \in {InsideBox, WholeBox}}
  \cup {Frame(TRUE, TRUE, BigImage, <<FaceLandmarks(InsideBox, FrontalPose, n)>>) :
          n \in ShortCounts}

\* What a read past the end of a landmark list may find.
GarbageLandmarks == {Landmark(0, 0, 0), Landmark(5000, 9000, 1000)}

NoGarbage == [i \in CalcIndices |-> Landmark(0, 0, 0)]

\* The values the reads of Process may find in a frame: a choice only when
\* the frame has a list that one of the reads overruns.
GarbageReads(frame) ==
  IF frame.multi_landmarks # <<>> /\ OutOfRange(frame.multi_landmarks[1])
  THEN {[i \in CalcIndices |-> g] : g \in GarbageLandmarks}
  ELSE {NoGarbage}

\* BoundingBox of each landmark list of the input domain, computed once.
CalcLandmarkLists == {f.multi_landmarks[1] : f \in {g \in CalcFrames : g.multi_landmarks # <<>>}}

BoundingBoxOf == [l \in CalcLandmarkLists |-> BoundingBox(l)]

\* (width, height) of the images handed to detectFace / captureFrame: below
\* 100, below 320 x 240, and one from which landmarks are made.
WasmImages == {<<50, 50>>, <<200, 200>>, <<320, 240>>}

\* width < 100 || height < 100: "Image too small".
MinImageSide == 100

\* processImageData of each image of the input domain, computed once.
GeneratedLandmarks == [im \in WasmImages |-> ProcessImageData(im[1], im[2])]

---------------------------------------------------------------------------
(* State.                                                                  *)

VARIABLES
  site,              \* "calc": a SmartCaptureCalculator, "wasm": a SmartFaceProcessor
  pc,                \* the calculator: "constructed", "open" (after Open), "crashed"
  status_connected,  \* the graph connects the calculator's STATUS output
  calc,              \* the calculator's fields
  proc,              \* the processor's fields
  obs,               \* the last call: its way out, what it returned and emitted
  crops_emitted,     \* CROPPED_FACE packets emitted since Open
  captured_sent,     \* "Captured!" packets sent on STATUS since Open
  reset_from,        \* the last Open / initialize / resetCaptures found a count: -1 none yet, 0 zero, 1 positive
  streak             \* consecutive accept calls on a fresh session (see Streak)

vars == <<site, pc, status_connected, calc, proc, obs, crops_emitted,
          captured_sent, reset_from, streak>>

ZeroRect == [x |-> 0, y |-> 0, pad_w |-> 0, pad_h |-> 0]

ZeroBox == [min_x |-> 0, max_x |-> 0, min_y |-> 0, max_y |-> 0]

\* The record of a call that did nothing yet.
\*   outcome        the way out of the call
\*   input          the landmark input: "absent" (no packet), "empty" (no
\*                  list), "list" (a list of nlm points), "none" (not looked at)
\*   estimated      the pose was computed
\*   nlm            points of the landmark list the call looked at, -1: none
\*   oob            a landmark index was read past the end of the list
\*   status         the STATUS packet sent / FaceResult::message
\*   ret            captureFrame's return value
\*   detected, landmark_count, yaw, pitch, roll, quality_good   FaceResult
\*   cropped        CropAndSend ran;  emitted: it emitted CROPPED_FACE
\*   bb, img, padding, rect   its bounding box, image, padding and rectangle
\*   count_before   the capture count when the call began
Obs(op, count) ==
  [op |-> op, outcome |-> "None", input |-> "none", estimated |-> FALSE,
   nlm |-> -1, oob |-> FALSE,
   status |-> "", ret |-> FALSE, detected |-> FALSE, landmark_count |-> 0,
   yaw |-> 0, pitch |-> 0, roll |-> 0, quality_good |-> FALSE,
   cropped |-> FALSE, emitted |-> FALSE, bb |-> ZeroBox, img |-> [w |-> 0, h |-> 0],
   padding |-> 0, rect |-> ZeroRect, count_before |-> count]

\* SmartFaceProcessor(): initialized_(false), max_yaw_(15), max_pitch_(15),
\* capture_count_(0), max_captures_(5), last_landmarks_ empty.
DefaultMaxCaptures == 5

DefaultMaxYaw == 15000

DefaultMaxPitch == 15000

NewProcessor ==
  [initialized_ |-> FALSE, max_yaw_ |-> DefaultMaxYaw, max_pitch_ |-> DefaultMaxPitch,
   capture_count_ |-> 0, max_captures_ |-> DefaultMaxCaptures,
   last_landmarks_ |-> NoLandmarks]

\* A constructed calculator: no member has an initializer, so each holds an
\* indeterminate value until Open assigns it.
CalcFields ==
  [max_captures_ : MaxCapturesValues, max_yaw_ : MaxYawValues,
   max_pitch_ : MaxPitchValues, padding_ : PaddingValues,
   current_count_ : MaxCapturesValues]

Init ==
  /\ site \in {"calc", "wasm"}
  /\ pc = "constructed"
  /\ status_connected \in (IF site = "calc" THEN BOOLEAN ELSE {FALSE})
  /\ calc \in (IF site = "calc" THEN CalcFields
               ELSE {[max_captures_ |-> 0, max_yaw_ |-> 0, max_pitch_ |-> 0,
                      padding_ |-> 0, current_count_ |-> 0]})
  /\ proc = NewProcessor
  /\ obs = Obs("new", 0)
  /\ crops_emitted = 0
  /\ captured_sent = 0
  /\ reset_from = -1
  /\ streak = IF site = "wasm" THEN 0 ELSE -1

\* The capture count and limit of the object this behaviour is about.
Count == IF site = "calc" THEN calc.current_count_ ELSE proc.capture_count_

Limit == IF site = "calc" THEN calc.max_captures_ ELSE proc.max_captures_

\* streak after one more accept call: it counts the calls made since the
\* session was opened, initialized or reset while every frame so far passes
\* the quality gate, up to max_captures + 1 of them; -1 once a frame fails
\* the gate, a setter or another call intervenes, or the calls go on.
Streak(passes, max_captures) ==
  IF streak >= 0 /\ streak <= max_captures /\ passes THEN streak + 1 ELSE -1

---------------------------------------------------------------------------
(* SmartCaptureCalculator.                                                 *)

\* Open: the options into the fields, the count to 0.  The framework makes
\* a calculator for each run of the graph and calls Open on it once, before
\* any Process.
Open(max_captures, max_yaw, max_pitch, padding) ==
  /\ site = "calc"
  /\ pc = "constructed"
  /\ pc' = "open"
  /\ calc' = [max_captures_ |-> max_captures, max_yaw_ |-> max_yaw,
              max_pitch_ |-> max_pitch, padding_ |-> padding, current_count_ |-> 0]
  /\ obs' = Obs("Open", calc.current_count_)
  /\ crops_emitted' = 0
  /\ captured_sent' = 0
  /\ reset_from' = Min(1, Max(0, calc.current_count_))
  /\ streak' = 0
  /\ UNCHANGED <<site, status_connected, proc>>

\* CropAndSend: the bounding box, the padded and clamped rectangle, and
\* whether the rectangle is extracted and emitted.
CropAndSend(landmarks, img, padding) ==
  LET bb   == BoundingBoxOf[landmarks]
      rect == ClampRect(PaddedRect(bb, img.w, img.h, padding), img.w, img.h)
  IN  [bb |-> bb, rect |-> rect, emitted |-> ShouldEmit(rect)]

\* Process after its first test, when the reads of the landmarks return.
ProcessBody(o, c, connected, frame, garbage) ==
  IF ~frame.has_image \/ ~frame.has_landmarks
  THEN [o EXCEPT !.outcome = "InputMissing", !.input = "absent"]
  ELSE IF frame.multi_landmarks = <<>>
  THEN [o EXCEPT !.outcome = "RejectNoFace", !.input = "empty",
                 !.status = SendStatus(connected, CalcStatus("RejectNoFace"))]
  ELSE
    LET landmarks == frame.multi_landmarks[1]
        nose      == ReadLandmark(landmarks, 1, garbage)
        left_ear  == ReadLandmark(landmarks, 234, garbage)
        right_ear == ReadLandmark(landmarks, 454, garbage)
        yaw       == CalcYaw(left_ear, right_ear)
        pitch     == CalcPitch(nose, left_ear, right_ear)
        outcome   == CalcGate(yaw, pitch, c.max_yaw_, c.max_pitch_)
        gated     == [o EXCEPT !.outcome = outcome, !.input = "list",
                               !.estimated = TRUE, !.nlm = Size(landmarks),
                               !.oob = OutOfRange(landmarks),
                               !.yaw = yaw, !.pitch = pitch,
                               !.status = SendStatus(connected, CalcStatus(outcome))]
        crop      == CropAndSend(landmarks, frame.img, c.padding_)
    IN  IF outcome # "Accept" THEN gated
        ELSE [gated EXCEPT !.cropped = TRUE, !.emitted = crop.emitted,
                           !.bb = crop.bb, !.img = frame.img,
                           !.padding = c.padding_, !.rect = crop.rect]

\* The frame has both packets and a face whose landmarks Process can read
\* and whose pose is within the thresholds.
CalcFramePasses(c, frame) ==
  /\ frame.has_image /\ frame.has_landmarks
  /\ frame.multi_landmarks # <<>>
  /\ ~OutOfRange(frame.multi_landmarks[1])
  /\ ProcessBody(Obs("Process", 0), c, FALSE, frame, NoGarbage).outcome = "Accept"

\* Process returns: nothing at the limit, else the body; an accepted frame
\* adds one to the count.
ProcessReturns(frame, garbage) ==
  /\ site = "calc"
  /\ pc = "open"
  /\ LET o == Obs("Process", calc.current_count_)
         r == IF LimitReached(calc.current_count_, calc.max_captures_)
              THEN [o EXCEPT !.outcome = "ShortCircuit"]
              ELSE ProcessBody(o, calc, status_connected, frame, garbage)
     IN  /\ obs' = r
         /\ calc' = [calc EXCEPT !.current_count_ = NextCount(@, r.outcome = "Accept")]
         /\ crops_emitted' = crops_emitted + (IF r.emitted THEN 1 ELSE 0)
         /\ captured_sent' = captured_sent + (IF r.status = "Captured!" THEN 1 ELSE 0)
  /\ streak' = Streak(CalcFramePasses(calc, frame), calc.max_captures_)
  /\ UNCHANGED <<site, pc, status_connected, proc, reset_from>>

\* Process does not return: the read past the end of the list (a failed
\* DCHECK in a debug build, a fault in an optimized one) ends the program.
ProcessCrashes(frame) ==
  /\ site = "calc"
  /\ pc = "open"
  /\ ~LimitReached(calc.current_count_, calc.max_captures_)
  /\ frame.has_image /\ frame.has_landmarks
  /\ frame.multi_landmarks # <<>>
  /\ OutOfRange(frame.multi_landmarks[1])
  /\ pc' = "crashed"
  /\ obs' = [Obs("Process", calc.current_count_) EXCEPT
               !.outcome = "Crash", !.input = "list", !.oob = TRUE,
               !.nlm = Size(frame.multi_landmarks[1])]
  /\ streak' = -1
  /\ UNCHANGED <<site, status_connected, calc, proc, crops_emitted, captured_sent,
                 reset_from>>

---------------------------------------------------------------------------
(* SmartFaceProcessor.                                                     *)

\* initialize
Initialize ==
  /\ site = "wasm"
  /\ proc' = [proc EXCEPT !.initialized_ = TRUE, !.capture_count_ = 0]
  /\ obs' = [Obs("initialize", proc.capture_count_) EXCEPT !.ret = TRUE]
  /\ reset_from' = Min(1, Max(0, proc.capture_count_))
  /\ streak' = 0
  /\ UNCHANGED <<site, pc, status_connected, calc, crops_emitted, captured_sent>>

\* setMaxYaw
SetMaxYaw(degrees) ==
  /\ site = "wasm"
  /\ proc' = [proc EXCEPT !.max_yaw_ = degrees]
  /\ obs' = Obs("setMaxYaw", proc.capture_count_)
  /\ streak' = -1
  /\ UNCHANGED <<site, pc, status_connected, calc, crops_emitted, captured_sent,
                 reset_from>>

\* setMaxPitch
SetMaxPitch(degrees) ==
  /\ site = "wasm"
  /\ proc' = [proc EXCEPT !.max_pitch_ = degrees]
  /\ obs' = Obs("setMaxPitch", proc.capture_count_)
  /\ streak' = -1
  /\ UNCHANGED <<site, pc, status_connected, calc, crops_emitted, captured_sent,
                 reset_from>>

\* setMaxCaptures
SetMaxCaptures(count) ==
  /\ site = "wasm"
  /\ proc' = [proc EXCEPT !.max_captures_ = count]
  /\ obs' = Obs("setMaxCaptures", proc.capture_count_)
  /\ streak' = -1
  /\ UNCHANGED <<site, pc, status_connected, calc, crops_emitted, captured_sent,
                 reset_from>>

\* detectFace reaches processImageData, which overwrites last_landmarks_.
RunsGenerator(p, width, height) ==
  p.initialized_ /\ ~(width < MinImageSide \/ height < MinImageSide)

\* The FaceResult of detectFace and the way out it took.  (Its landmarks
\* member is not bound to JavaScript and is left out.)
DetectFaceResult(o, p, width, height) ==
  IF ~p.initialized_
  THEN [o EXCEPT !.outcome = "NotInitialized",
                 !.status = WasmMessage("NotInitialized", 0, 0)]
  ELSE IF width < MinImageSide \/ height < MinImageSide
  THEN [o EXCEPT !.outcome = "ImageTooSmall",
                 !.status = WasmMessage("ImageTooSmall", 0, 0)]
  ELSE
    LET landmarks == GeneratedLandmarks[<<width, height>>]
        yaw       == EstimateYaw(landmarks)
        pitch     == EstimatePitch(landmarks)
        roll      == EstimateRoll(landmarks)
        outcome   == WasmGate(yaw, pitch, p.max_yaw_, p.max_pitch_)
    IN  IF Size(landmarks) = 0 \/ Size(landmarks) < NumLandmarks
        THEN [o EXCEPT !.outcome = "RejectNoFace", !.input = "list",
                       !.nlm = Size(landmarks),
                       !.status = WasmMessage("RejectNoFace", 0, 0)]
        ELSE [o EXCEPT !.outcome = outcome, !.input = "list",
                       !.nlm = Size(landmarks), !.estimated = TRUE,
                       !.detected = TRUE, !.landmark_count = Size(landmarks),
                       !.status = WasmMessage(outcome, yaw, pitch),
                       !.yaw = yaw, !.pitch = pitch, !.roll = roll,
                       !.quality_good = (outcome = "Accept")]

\* last_landmarks_ after detectFace.
LastLandmarks(p, width, height) ==
  IF RunsGenerator(p, width, height) THEN GeneratedLandmarks[<<width, height>>]
  ELSE p.last_landmarks_

\* detectFace, called from JavaScript
DetectFace(width, height) ==
  /\ site = "wasm"
  /\ obs' = DetectFaceResult(Obs("detectFace", proc.capture_count_), proc, width, height)
  /\ proc' = [proc EXCEPT !.last_landmarks_ = LastLandmarks(proc, width, height)]
  /\ streak' = -1
  /\ UNCHANGED <<site, pc, status_connected, calc, crops_emitted, captured_sent,
                 reset_from>>

\* The frame gives a detected face of good quality.
WasmFramePasses(p, width, height) ==
  LET r == DetectFaceResult(Obs("detectFace", 0), p, width, height)
  IN  r.detected /\ r.quality_good

\* captureFrame: false at the limit, else detectFace; a detected face of
\* good quality adds one to the count and returns true.
CaptureFrame(width, height) ==
  /\ site = "wasm"
  /\ LET o == Obs("captureFrame", proc.capture_count_)
         r == DetectFaceResult(o, proc, width, height)
     IN  IF LimitReached(proc.capture_count_, proc.max_captures_)
         THEN /\ obs' = [o EXCEPT !.outcome = "ShortCircuit"]
              /\ proc' = proc
         ELSE /\ obs' = [r EXCEPT !.ret = (r.detected /\ r.quality_good)]
              /\ proc' = [proc EXCEPT
                            !.last_landmarks_ = LastLandmarks(proc, width, height),
                            !.capture_count_ =
                               NextCount(@, r.detected /\ r.quality_good)]
  /\ streak' = Streak(WasmFramePasses(proc, width, height), proc.max_captures_)
  /\ UNCHANGED <<site, pc, status_connected, calc, crops_emitted, captured_sent,
                 reset_from>>

\* resetCaptures
ResetCaptures ==
  /\ site = "wasm"
  /\ proc' = [proc EXCEPT !.capture_count_ = 0]
  /\ obs' = Obs("resetCaptures", proc.capture_count_)
  /\ reset_from' = Min(1, Max(0, proc.capture_count_))
  /\ streak' = 0
  /\ UNCHANGED <<site, pc, status_connected, calc, crops_emitted, captured_sent>>

---------------------------------------------------------------------------

Next ==
  \/ \E mc \in MaxCapturesValues, my \in MaxYawValues, mp \in MaxPitchValues,
        pad \in PaddingValues : Open(mc, my, mp, pad)
  \/ \E f \in CalcFrames : \E g \in GarbageReads(f) : ProcessReturns(f, g)
  \/ \E f \in CalcFrames : ProcessCrashes(f)
  \/ Initialize
  \/ \E d \in MaxYawValues : SetMaxYaw(d)
  \/ \E d \in MaxPitchValues : SetMaxPitch(d)
  \/ \E n \in MaxCapturesValues : SetMaxCaptures(n)
  \/ \E im \in WasmImages : DetectFace(im[1], im[2])
  \/ \E im \in WasmImages : CaptureFrame(im[1], im[2])
  \/ ResetCaptures

Spec == Init /\ [][Next]_vars

---------------------------------------------------------------------------
(* Properties.                                                             *)

\* The object has begun a session: the calculator has been opened (before
\* Open its fields hold no defined value); a processor from construction.
Started == site = "wasm" \/ pc # "constructed"

\* The last call was one that may accept a frame.
AcceptCall == obs.op \in {"Process", "captureFrame"}

\* The last call looked at a frame: an accept call that found the limit not
\* reached, or detectFace.
FrameLookedAt ==
  /\ obs.op \in {"Process", "captureFrame", "detectFace"}
  /\ obs.outcome # "ShortCircuit"

\* The thresholds in force.
MaxYawNow == IF site = "calc" THEN calc.max_yaw_ ELSE proc.max_yaw_

MaxPitchNow == IF site = "calc" THEN calc.max_pitch_ ELSE proc.max_pitch_

\* C1: after any sequence of operations, setMaxCaptures among them, the
\* capture count is at least 0 and at most max_captures.
C1_CountWithinLimit ==
  Started => 0 <= Count /\ Count <= Limit

\* C2: of max_captures + 1 accept calls in a row on a fresh session, each
\* with a frame that passes every quality check, the first max_captures
\* succeed and raise the count by one each, and the last one returns false
\* without estimating a pose and leaves the count at max_captures.
C2_ExactlyMaxCaptures ==
  streak >= 0 =>
    /\ Count = Min(streak, Limit)
    /\ (streak >= 1 /\ streak <= Limit) =>
          /\ AcceptCall
          /\ obs.outcome = "Accept"
          /\ obs.estimated
          /\ site = "wasm" => obs.ret
          /\ Count = obs.count_before + 1
    /\ streak = Limit + 1 =>
          /\ AcceptCall
          /\ obs.outcome = "ShortCircuit"
          /\ ~obs.estimated
          /\ ~obs.ret
          /\ obs.status = ""
          /\ ~obs.emitted
          /\ Count = Limit

\* The last call of a run of max_captures + 1 all-pass calls, the limit
\* being at least 2.
C2_Witness ==
  /\ streak = Limit + 1
  /\ Limit >= 2
  /\ obs.outcome = "ShortCircuit"

\* The landmark input of the frame looked at is absent, empty, or a list of
\* fewer than 468 points.
ShortInput ==
  \/ obs.input \in {"absent", "empty"}
  \/ obs.input = "list" /\ obs.nlm < NumLandmarks

\* C3: at both call sites, a frame whose landmark input is absent, empty or
\* shorter than 468 points gets the zero pose and the outcome RejectNoFace
\* with the status "No face detected", without any landmark index being
\* read past the end of the list, without a crop, and without a change of
\* the capture count.  (A calculator whose STATUS output is not connected
\* carries no status, and a frame with an absent packet is taken to be
\* rejected when Process returns for it without any output.)
C3_ShortInputIsNoFace ==
  (FrameLookedAt /\ ShortInput) =>
    /\ ~obs.oob
    /\ obs.yaw = 0 /\ obs.pitch = 0 /\ obs.roll = 0
    /\ ~obs.cropped /\ ~obs.emitted
    /\ Count = obs.count_before
    /\ \/ obs.input = "absent" /\ obs.outcome = "InputMissing" /\ obs.status = ""
       \/ /\ obs.outcome = "RejectNoFace"
          /\ (site = "calc" /\ ~status_connected) \/ obs.status = "No face detected"

\* The status text the calculator specification gives each outcome.
SpecStatus(outcome) ==
  CASE outcome = "RejectNoFace" -> "No face detected"
    [] outcome = "RejectYaw"    -> "Face turned too much (Yaw)"
    [] outcome = "RejectPitch"  -> "Face tilted up/down too much (Pitch)"
    [] outcome = "Accept"       -> "Captured!"
    [] OTHER                    -> "?"

\* C4 as stated: every frame whose landmark input reaches the gate gets one
\* of the outcomes RejectNoFace, RejectYaw, RejectPitch and Accept, decided
\* in that order with strict comparisons, and the status carried for it is
\* verbatim "No face detected", "Face turned too much (Yaw)", "Face tilted
\* up/down too much (Pitch)" or "Captured!", matching the outcome.
C4_FourOutcomesVerbatim ==
  (FrameLookedAt /\ obs.input \in {"empty", "list"} /\ ~obs.oob) =>
    /\ obs.outcome \in {"RejectNoFace", "RejectYaw", "RejectPitch", "Accept"}
    /\ (site = "calc" /\ ~status_connected) \/ obs.status = SpecStatus(obs.outcome)

\* The message detectFace puts in its result, by the way out it took.
WasmText(outcome, yaw, pitch) ==
  CASE outcome = "NotInitialized" -> "Error: Not initialized"
    [] outcome = "ImageTooSmall"  -> "Image too small"
    [] outcome = "RejectNoFace"   -> "No face detected"
    [] outcome = "RejectYaw"      ->
         "Face turned too much (Yaw: " \o ToString(TruncDiv(yaw, 1000)) \o "째)"
    [] outcome = "RejectPitch"    ->
         "Face tilted too much (Pitch: " \o ToString(TruncDiv(pitch, 1000)) \o "째)"
    [] outcome = "Accept"         -> "Good quality face detected!"
    [] OTHER                      -> "?"

\* The pitch threshold each call site compares |pitch| with.
PitchLimitNow == IF site = "calc" THEN 2 * calc.max_pitch_ ELSE proc.max_pitch_

\* C4 (amended): a frame whose pose is computed gets exactly one of
\* RejectYaw, RejectPitch and Accept: RejectYaw iff |yaw| > max_yaw (also
\* when the pitch is out of range too), else RejectPitch iff |pitch| exceeds
\* the call site's pitch threshold, else Accept, so that a value equal to
\* its threshold is not rejected.  A frame with an empty landmark vector is
\* RejectNoFace before any pose is computed.  The calculator emits a status
\* only when STATUS is connected, and then the string of the outcome; in
\* the WASM processor the result's message is "Error: Not initialized",
\* "Image too small", "No face detected", "Face turned too much (Yaw: N째)",
\* "Face tilted too much (Pitch: N째)" or "Good quality face detected!".
C4_GateOrder ==
  FrameLookedAt =>
    /\ obs.estimated =>
         /\ obs.outcome \in {"RejectYaw", "RejectPitch", "Accept"}
         /\ obs.outcome = "RejectYaw" <=> Abs(obs.yaw) > MaxYawNow
         /\ obs.outcome = "RejectPitch" <=>
              (Abs(obs.yaw) <= MaxYawNow /\ Abs(obs.pitch) > PitchLimitNow)
         /\ obs.outcome = "Accept" <=>
              (Abs(obs.yaw) <= MaxYawNow /\ Abs(obs.pitch) <= PitchLimitNow)
    /\ (obs.input = "empty" \/ (site = "wasm" /\ obs.input = "list" /\ obs.nlm = 0)) =>
         obs.outcome = "RejectNoFace" /\ ~obs.estimated
    /\ obs.outcome = "RejectNoFace" => ~obs.estimated
    /\ (site = "calc" /\ obs.outcome \notin {"InputMissing", "Crash"}) =>
         obs.status = (IF status_connected THEN SpecStatus(obs.outcome) ELSE "")
    /\ (site = "calc" /\ obs.outcome \in {"InputMissing", "Crash"}) => obs.status = ""
    /\ site = "wasm" => obs.status = WasmText(obs.outcome, obs.yaw, obs.pitch)

\* A calculator frame with both angles out of range, reported as RejectYaw
\* with the status "Face turned too much (Yaw)".
C4_Witness ==
  /\ site = "calc"
  /\ obs.op = "Process"
  /\ obs.outcome = "RejectYaw"
  /\ Abs(obs.yaw) > calc.max_yaw_
  /\ Abs(obs.pitch) > 2 * calc.max_pitch_
  /\ obs.status = "Face turned too much (Yaw)"

\* C5: the calculator rejects a frame for pitch iff the yaw check passes and
\* |pitch| > 2 * max_pitch, the WASM processor iff the yaw check passes and
\* |pitch| > max_pitch; the two policies give the same outcome for a pose
\* except when the yaw check passes and max_pitch < |pitch| <= 2 * max_pitch,
\* where the calculator's accepts and the WASM processor's rejects for pitch.
C5_PitchPolicies ==
  (FrameLookedAt /\ obs.estimated) =>
    LET my      == MaxYawNow
        mp      == MaxPitchNow
        doubled == IF site = "calc" THEN obs.outcome
                   ELSE CalcGate(obs.yaw, obs.pitch, my, mp)
        direct  == IF site = "wasm" THEN obs.outcome
                   ELSE WasmGate(obs.yaw, obs.pitch, my, mp)
        band    == /\ Abs(obs.yaw) <= my
                   /\ mp < Abs(obs.pitch)
                   /\ Abs(obs.pitch) <= 2 * mp
    IN  /\ doubled = "RejectPitch" <=> (Abs(obs.yaw) <= my /\ Abs(obs.pitch) > 2 * mp)
        /\ direct = "RejectPitch" <=> (Abs(obs.yaw) <= my /\ Abs(obs.pitch) > mp)
        /\ band => doubled = "Accept" /\ direct = "RejectPitch"
        /\ ~band => doubled = direct

\* A frame the calculator accepts with max_pitch < |pitch| <= 2 * max_pitch.
C5_Witness ==
  /\ site = "calc"
  /\ obs.op = "Process"
  /\ obs.outcome = "Accept"
  /\ ~obs.oob
  /\ Abs(obs.pitch) > calc.max_pitch_
  /\ Abs(obs.pitch) <= 2 * calc.max_pitch_

\* C6: a rectangle CropAndSend extracts lies inside the image: x >= 0,
\* y >= 0, pad_w > 0, pad_h > 0, x + pad_w <= img_w, y + pad_h <= img_h; and
\* when the clamped width or height is not positive nothing is emitted.
C6_CropInsideImage ==
  /\ obs.emitted => obs.cropped
  /\ obs.cropped =>
       /\ obs.emitted <=> (obs.rect.pad_w > 0 /\ obs.rect.pad_h > 0)
       /\ obs.emitted =>
            /\ obs.rect.x >= 0
            /\ obs.rect.y >= 0
            /\ obs.rect.pad_w > 0
            /\ obs.rect.pad_h > 0
            /\ obs.rect.x + obs.rect.pad_w <= obs.img.w
            /\ obs.rect.y + obs.rect.pad_h <= obs.img.h

\* A crop whose padded box reached past the image and was cut to it.
C6_Witness ==
  /\ obs.cropped
  /\ obs.emitted
  /\ obs.rect.pad_w < PaddedRect(obs.bb, obs.img.w, obs.img.h, obs.padding).pad_w
  /\ obs.rect.x + obs.rect.pad_w = obs.img.w

\* The limit is reached in a session that has begun.
AtLimit == Started /\ pc # "crashed" /\ Count >= Limit

\* A step of an accept call at the limit: nothing is emitted, stored or
\* counted, and no pose is estimated.
ShortCircuited ==
  /\ obs'.outcome = "ShortCircuit"
  /\ obs'.status = ""
  /\ ~obs'.estimated
  /\ ~obs'.cropped /\ ~obs'.emitted
  /\ ~obs'.ret
  /\ Count' = Count
  /\ crops_emitted' = crops_emitted
  /\ captured_sent' = captured_sent
  /\ proc'.last_landmarks_ = proc.last_landmarks_

\* C7 as stated: once count >= max_captures every accept call is
\* short-circuited, and this goes on until the session is reset or
\* initialized again (Open, initialize, resetCaptures).
C7_UntilResetOnly ==
  [][AtLimit =>
       /\ obs'.op \in {"Process", "captureFrame"} => ShortCircuited
       /\ ~(Count' >= Limit') => obs'.op \in {"Open", "initialize", "resetCaptures"}
    ]_vars

\* C7 (amended): once count >= max_captures every accept call is
\* short-circuited before any other work: no status, no crop, no pose
\* estimate, the count and the stored landmarks unchanged, captureFrame
\* returning false.  This goes on until the session is reset or initialized
\* again, or setMaxCaptures raises the limit above the count.
C7_ShortCircuitAtLimit ==
  [][AtLimit =>
       /\ obs'.op \in {"Process", "captureFrame"} => ShortCircuited
       /\ ~(Count' >= Limit') =>
            \/ obs'.op \in {"Open", "initialize", "resetCaptures"}
            \/ obs'.op = "setMaxCaptures" /\ Limit' > Count /\ Count' = Count
    ]_vars

\* A frame short-circuited at a limit that captures have reached.
C7_Witness ==
  /\ obs.outcome = "ShortCircuit"
  /\ obs.count_before = Limit
  /\ Count = Limit
  /\ Limit >= 1

\* C8: every frame-processing or configuration operation leaves the count
\* unchanged or adds exactly 1 to it, and adds 1 only when an accept call
\* below the limit has the outcome Accept; Open, initialize and
\* resetCaptures set it to 0 whatever it was.
C8_MonotoneBetweenResets ==
  [][IF obs'.op \in {"Open", "initialize", "resetCaptures"}
     THEN Count' = 0
     ELSE \/ /\ Count' = Count
             /\ ~(obs'.op \in {"Process", "captureFrame"} /\ obs'.outcome = "Accept")
          \/ /\ Count' = Count + 1
             /\ obs'.outcome = "Accept"
             /\ obs'.op \in {"Process", "captureFrame"}
             /\ Count < Limit
    ]_vars

\* A processor that was reset from a positive count and has accepted frames
\* up to the limit again.
C8_Witness ==
  /\ site = "wasm"
  /\ reset_from = 1
  /\ obs.outcome = "Accept"
  /\ Count = Limit
  /\ Limit >= 1

\* The rectangle of the stated steps, before any clamp, from the recorded
\* bounding box, image size and padding.
StatedRect ==
  LET w     == TruncDiv((obs.bb.max_x - obs.bb.min_x) * obs.img.w, Scale)
      h     == TruncDiv((obs.bb.max_y - obs.bb.min_y) * obs.img.h, Scale)
      cx    == TruncDiv(obs.bb.min_x * obs.img.w + TruncDiv(w, 2) * Scale, Scale)
      cy    == TruncDiv(obs.bb.min_y * obs.img.h + TruncDiv(h, 2) * Scale, Scale)
      pad_w == TruncDiv(w * (Scale + obs.padding), Scale)
      pad_h == TruncDiv(h * (Scale + obs.padding), Scale)
  IN  [x |-> cx - TruncDiv(pad_w, 2), y |-> cy - TruncDiv(pad_h, 2),
       pad_w |-> pad_w, pad_h |-> pad_h]

\* The rectangle lies inside the image as it is.
NoClipping(r) ==
  /\ r.x >= 0 /\ r.y >= 0
  /\ r.x + r.pad_w <= obs.img.w
  /\ r.y + r.pad_h <= obs.img.h

\* C9: CropAndSend computes w, h, cx, cy, pad_w, pad_h, x and y by the
\* stated truncating steps and then clamps; where no clipping is needed the
\* emitted rectangle is exactly (cx - pad_w/2, cy - pad_h/2, pad_w, pad_h).
\* Landmarks spanning [0.2,0.2]-[0.6,0.7] on a 1000 x 1000 image with
\* padding 0.2 give (160, 150, 480, 600); on a 333 x 250 image, where the
\* products are not whole, they give (53, 37, 159, 150).
C9_RectByTruncation ==
  obs.cropped =>
    /\ (NoClipping(StatedRect) /\ StatedRect.pad_w > 0 /\ StatedRect.pad_h > 0) =>
          obs.emitted /\ obs.rect = StatedRect
    /\ obs.rect.x = Max(0, StatedRect.x)
    /\ obs.rect.y = Max(0, StatedRect.y)
    /\ obs.rect.pad_w = Min(StatedRect.pad_w, obs.img.w - obs.rect.x)
    /\ obs.rect.pad_h = Min(StatedRect.pad_h, obs.img.h - obs.rect.y)
    /\ (obs.bb = [min_x |-> 2000, max_x |-> 6000, min_y |-> 2000, max_y |-> 7000]
          /\ obs.padding = 2000) =>
         /\ obs.img = [w |-> 1000, h |-> 1000] =>
              obs.rect = [x |-> 160, y |-> 150, pad_w |-> 480, pad_h |-> 600]
         /\ obs.img = [w |-> 333, h |-> 250] =>
              obs.rect = [x |-> 53, y |-> 37, pad_w |-> 159, pad_h |-> 150]

\* The example of the specification: the crop (160, 150, 480, 600) emitted.
C9_Witness ==
  /\ obs.cropped
  /\ obs.emitted
  /\ obs.bb = [min_x |-> 2000, max_x |-> 6000, min_y |-> 2000, max_y |-> 7000]
  /\ obs.img = [w |-> 1000, h |-> 1000]
  /\ obs.padding = 2000
  /\ obs.rect = [x |-> 160, y |-> 150, pad_w |-> 480, pad_h |-> 600]

\* C10 as stated: after any sequence of Process calls since Open, the number
\* of CROPPED_FACE images emitted equals current_count and (where STATUS is
\* connected) the number of "Captured!" statuses, frames with a degenerate
\* bounding box included.  (Stated of the calls whose landmark reads stay
\* inside the list.)
C10_CropsEqualCount ==
  (site = "calc" /\ pc # "constructed" /\ ~obs.oob) =>
    /\ crops_emitted = calc.current_count_
    /\ status_connected => captured_sent = calc.current_count_

\* C10 (amended): every Process call that increments current_count is an
\* accepted frame and sends "Captured!" when STATUS is connected, but it
\* emits a cropped image only when the clamped rectangle has positive width
\* and height; a frame with a degenerate bounding box is counted and
\* reported without a crop.  So the number of crops never exceeds
\* current_count, and the number of "Captured!" statuses equals
\* current_count when STATUS is connected and is 0 otherwise.
C10_CropsOnlyForPositiveRects ==
  [][(site = "calc" /\ obs'.op = "Process") =>
       /\ crops_emitted' <= Count'
       /\ captured_sent' = (IF status_connected THEN Count' ELSE 0)
       /\ Count' = Count + 1 =>
            /\ obs'.outcome = "Accept"
            /\ obs'.cropped
            /\ obs'.status = (IF status_connected THEN "Captured!" ELSE "")
            /\ crops_emitted' - crops_emitted =
                 (IF obs'.rect.pad_w > 0 /\ obs'.rect.pad_h > 0 THEN 1 ELSE 0)
       /\ Count' = Count => crops_emitted' = crops_emitted
    ]_vars

\* A frame of 468 landmarks with a degenerate bounding box, accepted,
\* counted and reported as "Captured!" with no crop emitted.
C10_Witness ==
  /\ site = "calc"
  /\ status_connected
  /\ obs.outcome = "Accept"
  /\ obs.nlm = NumLandmarks
  /\ obs.status = "Captured!"
  /\ obs.bb.max_x = obs.bb.min_x
  /\ ~obs.emitted
  /\ crops_emitted < calc.current_count_
  /\ captured_sent = calc.current_count_

=============================================================================
